---- MODULE Spec2Model ----
(***************************************************************************)
(* Model of check_imports (src/check_imports.py): a walk over a project    *)
(* tree, extraction of import specifiers from every .ts/.tsx file with a   *)
(* regular expression, and resolution of alias ('@/') and relative ('.')   *)
(* specifiers against the filesystem.                                      *)
(*                                                                         *)
(* Text is modelled as a sequence of one-character strings, so that the    *)
(* regular expression, os.path.join, os.path.dirname, str.startswith and   *)
(* str.endswith are computed character by character.  A filesystem node is *)
(* the sequence of the names on its canonical path.                        *)
(***************************************************************************)
EXTENDS Naturals, Sequences, FiniteSets

VARIABLES fs, scanOrder, pc, todo, filepath, imports, error_count, out,
          lastImp, lastBase, lastFound, lastFile, visited, content, extracted

vars == <<fs, scanOrder, pc, todo, filepath, imports, error_count, out,
          lastImp, lastBase, lastFound, lastFile, visited, content,
          extracted>>

(***************************************************************************)
(* Bounds of the model.                                                    *)
(***************************************************************************)
\* the largest number of import lines of the file a.ts
MaxLines == 2
\* the largest number of tokens of a text given to the extraction alone
MaxTok == 6

(***************************************************************************)
(* Text helpers.                                                           *)
(***************************************************************************)
NL == "\n"
SQ == "'"
DQ == "\""

IsQuote(c) == c = SQ \/ c = DQ

\* \s of the regular expression, over the characters of the model
IsSpace(c) == c = " " \/ c = NL

\* s[a..b], empty when a > b
Slice(s, a, b) == IF a > b THEN <<>> ELSE SubSeq(s, a, b)

\* str.startswith
StartsWith(s, p) == Len(s) >= Len(p) /\ SubSeq(s, 1, Len(p)) = p

\* str.endswith
EndsWith(s, p) ==
    Len(s) >= Len(p) /\ SubSeq(s, Len(s) - Len(p) + 1, Len(s)) = p

RECURSIVE Concat(_)
Concat(ss) == IF ss = <<>> THEN <<>> ELSE Head(ss) \o Concat(Tail(ss))

\* the sequences over S of length at most n
SeqsUpTo(S, n) == UNION { [1..k -> S] : k \in 0..n }

(***************************************************************************)
(* Names and paths of the model's project tree.                            *)
(***************************************************************************)
APP == <<"a", "p", "p">>
VITEREACT == <<"v", "i", "t", "e", "r", "e", "a", "c", "t">>
SRC == <<"s", "r", "c">>
A_TS == <<"a", ".", "t", "s">>
S_DIR == <<"s">>
C_TSX == <<"c", ".", "t", "s", "x">>
X_DIR == <<"x">>
X_JS == <<"x", ".", "j", "s">>
X_TS == <<"x", ".", "t", "s">>
INDEX_TS == <<"i", "n", "d", "e", "x", ".", "t", "s">>

\* the argument of the call check_imports('/app/vitereact/src')
RootDir == <<"/">> \o APP \o <<"/">> \o VITEREACT \o <<"/">> \o SRC

\* the node of RootDir
RootNode == <<APP, VITEREACT, SRC>>

(***************************************************************************)
(* os.path                                                                 *)
(***************************************************************************)
\* posixpath.join(a, b)
Join(a, b) ==
    IF StartsWith(b, <<"/">>) THEN b
    ELSE IF a = <<>> \/ a[Len(a)] = "/" THEN a \o b
    ELSE a \o <<"/">> \o b

\* the index of the last "/" of p, 0 when there is none
LastSlash(p) ==
    LET I == { i \in 1..Len(p) : p[i] = "/" }
    IN  IF I = {} THEN 0 ELSE CHOOSE i \in I : \A j \in I : j <= i

RECURSIVE RStripSlash(_)
RStripSlash(p) ==
    IF p # <<>> /\ p[Len(p)] = "/" THEN RStripSlash(SubSeq(p, 1, Len(p) - 1))
    ELSE p

\* posixpath.dirname(p)
Dirname(p) ==
    LET head == Slice(p, 1, LastSlash(p))
    IN  IF head # <<>> /\ \E i \in 1..Len(head) : head[i] # "/"
        THEN RStripSlash(head)
        ELSE head

\* the components of p between its "/" characters (str.split('/'))
RECURSIVE Split(_)
Split(p) ==
    LET I == { i \in 1..Len(p) : p[i] = "/" }
    IN  IF I = {} THEN <<p>>
        ELSE LET i == CHOOSE k \in I : \A j \in I : k <= j
             IN  <<Slice(p, 1, i - 1)>> \o Split(Slice(p, i + 1, Len(p)))

(***************************************************************************)
(* The filesystem: fs.dirs and fs.files are sets of nodes, fs.text gives   *)
(* the decoded text of the .ts/.tsx files that decode as UTF-8, fs.bad is  *)
(* the set of files whose bytes do not decode.                             *)
(***************************************************************************)
NoNode == <<<<"?">>>>

IsDirNode(f, n) == n = <<>> \/ n \in f.dirs

IsNode(f, n) == IsDirNode(f, n) \/ n \in f.files

\* path resolution of the kernel over the components cs, starting at node n:
\* every component is looked up in a directory; "" and "." stay, ".." goes up
RECURSIVE ResolveFrom(_, _, _)
ResolveFrom(f, n, cs) ==
    IF n = NoNode THEN NoNode
    ELSE IF cs = <<>> THEN n
    ELSE IF ~IsDirNode(f, n) THEN NoNode
    ELSE LET c == Head(cs)
             m == IF c = <<>> \/ c = <<".">> THEN n
                  ELSE IF c = <<".", ".">>
                       THEN (IF n = <<>> THEN n ELSE SubSeq(n, 1, Len(n) - 1))
                  ELSE IF IsNode(f, Append(n, c)) THEN Append(n, c)
                  ELSE NoNode
         IN  ResolveFrom(f, m, Tail(cs))

\* the node an absolute path names, NoNode when it names none
Resolve(f, p) ==
    IF p = <<>> \/ p[1] # "/" THEN NoNode ELSE ResolveFrom(f, <<>>, Split(p))

\* os.path.exists(p)
Exists(f, p) == Resolve(f, p) # NoNode

\* os.path.isdir(p)
IsDir(f, p) == LET n == Resolve(f, p) IN n # NoNode /\ IsDirNode(f, n)

(***************************************************************************)
(* Import extraction: re.findall(r'from\s+[\'"](.+)[\'"]', content)        *)
(***************************************************************************)
FROM == <<"f", "r", "o", "m">>

\* the first index >= i of s that holds no whitespace, Len(s) + 1 if none
RECURSIVE SkipSpace(_, _)
SkipSpace(s, i) ==
    IF i <= Len(s) /\ IsSpace(s[i]) THEN SkipSpace(s, i + 1) ELSE i

\* the first index >= i of s that holds a line break, Len(s) + 1 if none
RECURSIVE LineEnd(_, _)
LineEnd(s, i) ==
    IF i <= Len(s) /\ s[i] # NL THEN LineEnd(s, i + 1) ELSE i

NoMatch == [ok |-> FALSE, group |-> <<>>, end |-> 0]

\* the match of the pattern that starts at index i of s: 'from', \s+ (greedy),
\* a quote, (.+) greedy over the characters of the line, then a quote: the
\* group ends before the LAST quote character of the line
MatchAt(s, i) ==
    IF i + 3 > Len(s) \/ SubSeq(s, i, i + 3) # FROM THEN NoMatch
    ELSE LET k == SkipSpace(s, i + 4)
         IN  IF k = i + 4 \/ k > Len(s) \/ ~IsQuote(s[k]) THEN NoMatch
             ELSE LET e == LineEnd(s, k + 1)
                      Q == { q \in (k + 2)..(e - 1) : IsQuote(s[q]) }
                  IN  IF Q = {} THEN NoMatch
                      ELSE LET q == CHOOSE x \in Q : \A y \in Q : y <= x
                           IN  [ok |-> TRUE,
                                group |-> SubSeq(s, k + 1, q - 1),
                                end |-> q]

\* the groups of the non-overlapping matches, scanning from index i
RECURSIVE FindAllFrom(_, _)
FindAllFrom(s, i) ==
    IF i > Len(s) THEN <<>>
    ELSE LET m == MatchAt(s, i)
         IN  IF m.ok THEN <<m.group>> \o FindAllFrom(s, m.end + 1)
             ELSE FindAllFrom(s, i + 1)

FindAll(s) == FindAllFrom(s, 1)

(***************************************************************************)
(* os.walk(root_dir), top down: the files of a directory, then the walk of *)
(* each of its subdirectories.  os.scandir lists a directory in an order   *)
(* of its own, scanOrder: a sequence of all the names of the model.        *)
(***************************************************************************)
\* the names of the entries of directory n that are in S, in scan order
Listed(S, ord, n) == SelectSeq(ord, LAMBDA nm : Append(n, nm) \in S)

RECURSIVE WalkFrom(_, _, _, _)
WalkFrom(f, ord, top, n) ==
    LET files == Listed(f.files, ord, n)
        dirs == Listed(f.dirs, ord, n)
    IN  [i \in 1..Len(files) |-> [subdir |-> top, file |-> files[i]]]
        \o Concat([i \in 1..Len(dirs) |->
                     WalkFrom(f, ord, Join(top, dirs[i]), Append(n, dirs[i]))])

\* the (subdir, file) pairs of the two loops of lines 8-9, in order
Walk(f, ord) ==
    IF IsDir(f, RootDir) THEN WalkFrom(f, ord, RootDir, Resolve(f, RootDir))
    ELSE <<>>

\* line 10: file.endswith('.tsx') or file.endswith('.ts')
IsSource(file) ==
    EndsWith(file, <<".", "t", "s", "x">>) \/ EndsWith(file, <<".", "t", "s">>)

(***************************************************************************)
(* Resolution of one specifier.                                            *)
(***************************************************************************)
ALIAS == <<"@", "/">>

\* the suffix list without its last entry, the empty suffix
ExtsWithoutBare ==
    << <<".", "t", "s">>, <<".", "t", "s", "x">>, <<".", "j", "s">>,
       <<".", "j", "s", "x">>, <<"/">> \o INDEX_TS,
       <<"/">> \o INDEX_TS \o <<"x">> >>

\* the suffix list of lines 28 and 48
Exts == << <<".", "t", "s">>, <<".", "t", "s", "x">>, <<".", "j", "s">>,
           <<".", "j", "s", "x">>, <<"/">> \o INDEX_TS,
           <<"/">> \o INDEX_TS \o <<"x">>, <<>> >>

\* lines 27-31 and 47-51: the loop over the suffixes, stopping at the first hit
SuffixFound(f, abs_path) ==
    \E i \in 1..Len(Exts) : Exists(f, abs_path \o Exts[i])

\* lines 23-24
AliasBase(imp) == Join(RootDir, Slice(imp, 3, Len(imp)))

\* lines 27-37: the suffixes, then the directory-with-index check
AliasFound(f, abs_path) ==
    \/ SuffixFound(f, abs_path)
    \/ /\ IsDir(f, abs_path)
       /\ \/ Exists(f, Join(abs_path, INDEX_TS))
          \/ Exists(f, Join(abs_path, INDEX_TS \o <<"x">>))

\* a relative specifier joined to the project root
RelativeBaseAtRoot(file_path, imp) == Join(RootDir, imp)

\* lines 44-45
RelativeBase(file_path, imp) == Join(Dirname(file_path), imp)

\* the relative branch with extension suffixes only
RelativeFoundByExtension(f, abs_path) ==
    \E i \in 1..4 : Exists(f, abs_path \o Exts[i])

\* lines 47-51
RelativeFound(f, abs_path) == SuffixFound(f, abs_path)

\* lines 40 and 54: print(f"Missing import in {filepath}: {imp}")
MissingLine(file_path, imp) ==
    [kind |-> "Missing import in", file |-> file_path, imp |-> imp]

\* line 58: print("No missing imports found.")
SuccessLine ==
    [kind |-> "No missing imports found.", file |-> <<>>, imp |-> <<>>]

(***************************************************************************)
(* The project trees and file texts of the model.                          *)
(***************************************************************************)
N_A == Append(RootNode, A_TS)
N_S == Append(RootNode, S_DIR)
N_C == Append(N_S, C_TSX)
N_X == Append(RootNode, X_DIR)
N_INDEX == Append(N_X, INDEX_TS)
N_XJS == Append(RootNode, X_JS)
\* /x.ts, a file outside the project root
N_OUTSIDE == <<X_TS>>

FixedDirs == {<<APP>>, <<APP, VITEREACT>>, RootNode}
OptDirs == {N_S, N_X}
OptFiles == {N_A, N_C, N_INDEX, N_XJS, N_OUTSIDE}

\* a line  from '<specifier>'
ImportLine(sp) == FROM \o <<" ", SQ>> \o sp \o <<SQ, NL>>

SpecsA == { ALIAS \o <<"/", "x">>, <<".", "/", "x">>, <<"x">> }
SpecsC == { <<".", "/", "x">>, <<".", ".", "/", "x">>, ALIAS \o <<"x">> }
SpecsIndex == { <<".", "/", "x">> }

TextsA ==
    { Concat(ls) : ls \in SeqsUpTo({ ImportLine(sp) : sp \in SpecsA }, MaxLines) }
TextsC == { ImportLine(sp) : sp \in SpecsC }
TextsIndex == { <<>> } \cup { ImportLine(sp) : sp \in SpecsIndex }

TextsOf(n) ==
    IF n = N_A THEN TextsA
    ELSE IF n = N_C THEN TextsC
    ELSE IF n = N_INDEX THEN TextsIndex
    ELSE { <<>> }

ScanOrders ==
    { <<A_TS, C_TSX, INDEX_TS, S_DIR, X_DIR, X_JS, X_TS>>,
      <<X_TS, X_JS, X_DIR, S_DIR, INDEX_TS, C_TSX, A_TS>> }

\* the text files of F: the files that open() and read() decode
Readable(F, B) == { n \in F : IsSource(n[Len(n)]) } \ B

Trees ==
    { [dirs |-> FixedDirs \cup D, files |-> F, bad |-> B] :
        D \in SUBSET OptDirs, F \in SUBSET OptFiles, B \in SUBSET {N_A, N_C} }

WellFormed(t) ==
    /\ t.bad \subseteq t.files
    /\ \A n \in t.files \cup t.dirs :
         Len(n) > 1 => SubSeq(n, 1, Len(n) - 1) \in t.dirs

EmptyFs == [dirs |-> FixedDirs, files |-> {}, bad |-> {}, text |-> <<>>]

(***************************************************************************)
(* check_imports(root_dir)                                                 *)
(***************************************************************************)
Init ==
    /\ \E t \in Trees :
         /\ WellFormed(t)
         /\ \E ta \in TextsOf(IF N_A \in Readable(t.files, t.bad)
                              THEN N_A ELSE <<>>),
               tc \in TextsOf(IF N_C \in Readable(t.files, t.bad)
                              THEN N_C ELSE <<>>),
               ti \in TextsOf(IF N_INDEX \in t.files THEN N_INDEX ELSE <<>>) :
              fs = [dirs |-> t.dirs, files |-> t.files, bad |-> t.bad,
                    text |-> [n \in Readable(t.files, t.bad) |->
                                IF n = N_A THEN ta
                                ELSE IF n = N_C THEN tc
                                ELSE IF n = N_INDEX THEN ti
                                ELSE <<>>]]
    /\ scanOrder \in ScanOrders
    /\ todo = Walk(fs, scanOrder)
    /\ pc = "walk"
    /\ filepath = <<>>
    /\ imports = <<>>
    /\ error_count = 0
    /\ out = <<>>
    /\ lastImp = <<>>
    /\ lastBase = <<>>
    /\ lastFound = FALSE
    /\ lastFile = <<>>
    /\ visited = <<>>
    /\ content = <<>>
    /\ extracted = <<>>

\* the path of the next file of the walk (line 11)
NextPath == Join(Head(todo).subdir, Head(todo).file)

\* a decode error that is not caught and ends the run
DecodeErrorRaised ==
    /\ pc = "walk" /\ todo # <<>>
    /\ IsSource(Head(todo).file)
    /\ Resolve(fs, NextPath) \in fs.bad
    /\ filepath' = NextPath
    /\ visited' = Append(visited, NextPath)
    /\ pc' = "done"
    /\ UNCHANGED <<fs, scanOrder, todo, imports, error_count, out,
                   lastImp, lastBase, lastFound, lastFile, content, extracted>>

\* a file opened for writing: its text is lost
ReadFileTruncating ==
    /\ pc = "walk" /\ todo # <<>>
    /\ IsSource(Head(todo).file)
    /\ Resolve(fs, NextPath) \in DOMAIN fs.text
    /\ filepath' = NextPath
    /\ visited' = Append(visited, NextPath)
    /\ imports' = <<>>
    /\ fs' = [fs EXCEPT !.text[Resolve(fs, NextPath)] = <<NL>>]
    /\ todo' = Tail(todo)
    /\ pc' = "imports"
    /\ UNCHANGED <<scanOrder, error_count, out,
                   lastImp, lastBase, lastFound, lastFile, content, extracted>>

\* line 10: a file that is neither .tsx nor .ts is passed over
SkipFile ==
    /\ pc = "walk" /\ todo # <<>>
    /\ ~IsSource(Head(todo).file)
    /\ todo' = Tail(todo)
    /\ UNCHANGED <<fs, scanOrder, pc, filepath, imports, error_count, out,
                   lastImp, lastBase, lastFound, lastFile, visited, content,
                   extracted>>

\* lines 11-16: f.read() raises UnicodeDecodeError, the loop continues
DecodeError ==
    /\ pc = "walk" /\ todo # <<>>
    /\ IsSource(Head(todo).file)
    /\ Resolve(fs, NextPath) \in fs.bad
    /\ filepath' = NextPath
    /\ visited' = Append(visited, NextPath)
    /\ todo' = Tail(todo)
    /\ UNCHANGED <<fs, scanOrder, pc, imports, error_count, out,
                   lastImp, lastBase, lastFound, lastFile, content, extracted>>

\* lines 11-19: the file is read and its imports are extracted
ReadFile ==
    /\ pc = "walk" /\ todo # <<>>
    /\ IsSource(Head(todo).file)
    /\ Resolve(fs, NextPath) \in DOMAIN fs.text
    /\ filepath' = NextPath
    /\ visited' = Append(visited, NextPath)
    /\ imports' = FindAll(fs.text[Resolve(fs, NextPath)])
    /\ todo' = Tail(todo)
    /\ pc' = "imports"
    /\ UNCHANGED <<fs, scanOrder, error_count, out,
                   lastImp, lastBase, lastFound, lastFile, content, extracted>>

\* a report that leaves out a line it has printed before
ClassifiedOnce(imp, abs_path, found) ==
    LET seen == \E i \in 1..Len(out) : out[i] = MissingLine(filepath, imp)
    IN  /\ lastImp' = imp
        /\ lastBase' = abs_path
        /\ lastFound' = found
        /\ lastFile' = filepath
        /\ out' = IF found \/ seen THEN out
                  ELSE Append(out, MissingLine(filepath, imp))
        /\ error_count' = IF found \/ seen THEN error_count
                          ELSE error_count + 1

\* lines 33 and 39-41, 53-55: a specifier that was not found is reported
Classified(imp, abs_path, found) ==
    /\ lastImp' = imp
    /\ lastBase' = abs_path
    /\ lastFound' = found
    /\ lastFile' = filepath
    /\ out' = IF found THEN out ELSE Append(out, MissingLine(filepath, imp))
    /\ error_count' = IF found THEN error_count ELSE error_count + 1

\* lines 21-41: a specifier that starts with '@/'
AliasImport ==
    /\ pc = "imports" /\ imports # <<>>
    /\ StartsWith(Head(imports), ALIAS)
    /\ LET abs_path == AliasBase(Head(imports))
       IN  Classified(Head(imports), abs_path, AliasFound(fs, abs_path))
    /\ imports' = Tail(imports)
    /\ UNCHANGED <<fs, scanOrder, pc, todo, filepath, visited, content,
                   extracted>>

\* lines 42-55: a specifier that starts with '.'
RelativeImport ==
    /\ pc = "imports" /\ imports # <<>>
    /\ ~StartsWith(Head(imports), ALIAS)
    /\ StartsWith(Head(imports), <<".">>)
    /\ LET abs_path == RelativeBase(filepath, Head(imports))
       IN  Classified(Head(imports), abs_path, RelativeFound(fs, abs_path))
    /\ imports' = Tail(imports)
    /\ UNCHANGED <<fs, scanOrder, pc, todo, filepath, visited, content,
                   extracted>>

\* a bare specifier reported as missing
OtherImportReported ==
    /\ pc = "imports" /\ imports # <<>>
    /\ ~StartsWith(Head(imports), ALIAS)
    /\ ~StartsWith(Head(imports), <<".">>)
    /\ lastImp' = Head(imports)
    /\ lastFile' = filepath
    /\ out' = Append(out, MissingLine(filepath, Head(imports)))
    /\ error_count' = error_count + 1
    /\ imports' = Tail(imports)
    /\ UNCHANGED <<fs, scanOrder, pc, todo, filepath,
                   lastBase, lastFound, visited, content, extracted>>

\* lines 20-42: any other specifier falls through both branches
OtherImport ==
    /\ pc = "imports" /\ imports # <<>>
    /\ ~StartsWith(Head(imports), ALIAS)
    /\ ~StartsWith(Head(imports), <<".">>)
    /\ lastImp' = Head(imports)
    /\ lastFile' = filepath
    /\ imports' = Tail(imports)
    /\ UNCHANGED <<fs, scanOrder, pc, todo, filepath, error_count, out,
                   lastBase, lastFound, visited, content, extracted>>

\* line 20: the loop over the imports of the file ends
EndFile ==
    /\ pc = "imports" /\ imports = <<>>
    /\ pc' = "walk"
    /\ UNCHANGED <<fs, scanOrder, todo, filepath, imports, error_count, out,
                   lastImp, lastBase, lastFound, lastFile, visited, content,
                   extracted>>

\* a success line printed whatever the count
ReportAlways ==
    /\ pc = "walk" /\ todo = <<>>
    /\ out' = Append(out, SuccessLine)
    /\ pc' = "done"
    /\ UNCHANGED <<fs, scanOrder, todo, filepath, imports, error_count,
                   lastImp, lastBase, lastFound, lastFile, visited, content,
                   extracted>>

\* lines 57-58: the walk is over
Report ==
    /\ pc = "walk" /\ todo = <<>>
    /\ out' = IF error_count = 0 THEN Append(out, SuccessLine) ELSE out
    /\ pc' = "done"
    /\ UNCHANGED <<fs, scanOrder, todo, filepath, imports, error_count,
                   lastImp, lastBase, lastFound, lastFile, visited, content,
                   extracted>>

Next ==
    \/ SkipFile
    \/ DecodeError
    \/ ReadFile
    \/ AliasImport
    \/ RelativeImport
    \/ OtherImport
    \/ EndFile
    \/ Report

Spec == Init /\ [][Next]_vars

(***************************************************************************)
(* The extraction alone, over the texts of at most MaxTok tokens.          *)
(***************************************************************************)
\* two import clauses, and the text that may stand between or after them
Tokens ==
    { FROM \o <<" ", SQ, "x", SQ>>, FROM \o <<NL, DQ, "x", DQ>>,
      <<" ">>, <<"x">>, <<SQ>>, <<NL>> }

InitExtract ==
    /\ content \in { Concat(ts) : ts \in SeqsUpTo(Tokens, MaxTok) }
    /\ extracted = <<>>
    /\ pc = "extract"
    /\ fs = EmptyFs
    /\ scanOrder = <<>>
    /\ todo = <<>>
    /\ filepath = <<>>
    /\ imports = <<>>
    /\ error_count = 0
    /\ out = <<>>
    /\ lastImp = <<>>
    /\ lastBase = <<>>
    /\ lastFound = FALSE
    /\ lastFile = <<>>
    /\ visited = <<>>

\* line 19
Extract ==
    /\ pc = "extract"
    /\ extracted' = FindAll(content)
    /\ pc' = "extracted"
    /\ UNCHANGED <<fs, scanOrder, todo, filepath, imports, error_count, out,
                   lastImp, lastBase, lastFound, lastFile, visited, content>>

NextExtract == Extract

ExtractSpec == InitExtract /\ [][NextExtract]_vars

(***************************************************************************)
(* Definitions used by the properties.                                     *)
(***************************************************************************)
IsAlias(imp) == StartsWith(imp, ALIAS)

IsRelative(imp) == ~StartsWith(imp, ALIAS) /\ StartsWith(imp, <<".">>)

MissingLines(o) == SelectSeq(o, LAMBDA l : l.kind = "Missing import in")

SuccessLines(o) == SelectSeq(o, LAMBDA l : l.kind = "No missing imports found.")

\* B + '.ts', B + '.tsx', B + '.js', B + '.jsx', B + '/index.ts',
\* B + '/index.tsx' and B itself
SevenPaths(B) ==
    { B \o <<".", "t", "s">>, B \o <<".", "t", "s", "x">>,
      B \o <<".", "j", "s">>, B \o <<".", "j", "s", "x">>,
      B \o <<"/", "i", "n", "d", "e", "x", ".", "t", "s">>,
      B \o <<"/", "i", "n", "d", "e", "x", ".", "t", "s", "x">>, B }

NoneOfSevenExists(f, B) == \A p \in SevenPaths(B) : ~Exists(f, p)

\* the quoted string that opens at index k of s: the text up to the next
\* quote character of the same kind, at least one character, on one line
RECURSIVE QuotedFrom(_, _)
QuotedFrom(s, i) ==
    IF i > Len(s) THEN <<>>
    ELSE IF i + 3 > Len(s) \/ SubSeq(s, i, i + 3) # FROM
         THEN QuotedFrom(s, i + 1)
    ELSE LET k == SkipSpace(s, i + 4)
         IN  IF k = i + 4 \/ k > Len(s) \/ ~IsQuote(s[k])
             THEN QuotedFrom(s, i + 1)
             ELSE LET e == LineEnd(s, k + 1)
                      Q == { q \in (k + 2)..(e - 1) : s[q] = s[k] }
                  IN  IF Q = {} THEN QuotedFrom(s, i + 1)
                      ELSE LET q == CHOOSE x \in Q : \A y \in Q : x <= y
                           IN  <<SubSeq(s, k + 1, q - 1)>>
                               \o QuotedFrom(s, q + 1)

\* C5: import extraction yields one specifier per occurrence of 'from',
\* whitespace and a quoted string, each the text between its own opening
\* quote and the matching closing quote, in order, duplicates kept.
C5_OneSpecifierPerQuotedString ==
    pc = "extracted" => extracted = QuotedFrom(content, 1)

\* the directory part of a path with its "/", as the path is written
DirPrefix(file_path) == Slice(file_path, 1, LastSlash(file_path))

\* C1: for every specifier that starts with '@/', '@//x' included, the base
\* path is root_dir joined with the specifier minus '@/', and every candidate
\* path tested lies under root_dir.
C1_AliasBaseUnderRoot ==
    IsAlias(lastImp) =>
        /\ lastBase = RootDir \o <<"/">> \o Slice(lastImp, 3, Len(lastImp))
        /\ \A p \in SevenPaths(lastBase) : StartsWith(p, RootDir \o <<"/">>)

\* C2: for every specifier that starts with '.', the base path is the
\* directory of the importing file joined with the specifier, and it is not
\* the path root_dir would give unless the file lies in root_dir itself.
C2_RelativeBaseAtFileDir ==
    IsRelative(lastImp) =>
        /\ lastBase = DirPrefix(lastFile) \o lastImp
        /\ DirPrefix(lastFile) # RootDir \o <<"/">>
             => lastBase # RootDir \o <<"/">> \o lastImp

C2_Witness ==
    /\ IsRelative(lastImp)
    /\ lastImp = <<".", "/", "x">>
    /\ lastFile = RootDir \o <<"/", "s", "/">> \o C_TSX
    /\ lastBase = RootDir \o <<"/", "s", "/", ".", "/", "x">>

\* C3: a specifier that starts with neither '.' nor '@/' never produces a
\* 'Missing import' line and never adds to the missing-count: every line
\* printed is for an alias or relative specifier, and the count is the
\* number of lines.
C3_BareNeverReported ==
    /\ \A i \in 1..Len(out) :
         out[i].kind = "Missing import in"
           => IsAlias(out[i].imp) \/ IsRelative(out[i].imp)
    /\ error_count = Len(MissingLines(out))

C3_Witness ==
    /\ pc = "done"
    /\ lastImp = <<"x">>
    /\ ~Exists(fs, RootDir \o <<"/">> \o X_JS)
    /\ ~Exists(fs, RootDir \o <<"/", "x">>)
    /\ out = <<SuccessLine>>

\* C4: when the run has completed, 'No missing imports found.' has been
\* printed exactly once if no 'Missing import' line was printed and not at
\* all otherwise; it is never printed before the walk has finished.
C4_SuccessLineOnlyAtEnd ==
    LET nS == Len(SuccessLines(out))
        nM == Len(MissingLines(out))
    IN  /\ pc # "done" => nS = 0
        /\ pc = "done" /\ nM = 0 => nS = 1
        /\ pc = "done" /\ nM > 0 => nS = 0

C4_Witness ==
    /\ pc = "done"
    /\ Len(MissingLines(out)) > 0
    /\ Len(SuccessLines(out)) = 0
    /\ Len(visited) > 1

\* C6: the alias branch (suffixes, then the directory-with-index check) and
\* the relative branch (suffixes only) classify the same base path alike in
\* every filesystem state: whichever branch classified the last specifier,
\* the other branch gives the same answer for its base path.
C6_BranchesAgree ==
    pc = "imports" /\ lastBase # <<>> =>
        /\ lastFound = AliasFound(fs, lastBase)
        /\ lastFound = RelativeFound(fs, lastBase)

\* the directory-with-index check ran (no suffix hit) and found nothing,
\* and a relative specifier named a directory without an index
C6_Witness ==
    /\ IsAlias(lastImp)
    /\ ~lastFound
    /\ ~IsDir(fs, lastBase)
    /\ \E n \in fs.dirs :
         /\ Len(n) > Len(RootNode)
         /\ Append(n, INDEX_TS) \notin fs.files

\* the paths of the .ts/.tsx files of the walk, in order
RECURSIVE SourcePaths(_)
SourcePaths(w) ==
    IF w = <<>> THEN <<>>
    ELSE (IF IsSource(Head(w).file)
          THEN <<Join(Head(w).subdir, Head(w).file)>> ELSE <<>>)
         \o SourcePaths(Tail(w))

\* C7: a file whose read raises a decode error gives no line and adds nothing
\* to the missing-count, and the run goes on over every remaining file to the
\* normal final report.
C7_DecodeErrorSkipsFile ==
    /\ \A i \in 1..Len(out) :
         out[i].kind = "Missing import in"
           => Resolve(fs, out[i].file) \notin fs.bad
    /\ error_count = Len(MissingLines(out))
    /\ pc = "done" =>
         /\ visited = SourcePaths(Walk(fs, scanOrder))
         /\ Len(SuccessLines(out)) = (IF error_count = 0 THEN 1 ELSE 0)

C7_Witness ==
    /\ pc = "done"
    /\ \E i \in 1..Len(visited) : \E j \in (i + 1)..Len(visited) :
         /\ Resolve(fs, visited[i]) \in fs.bad
         /\ \E k \in 1..Len(out) : out[k].file = visited[j]

\* the specifiers of a text that the run must report for the file at path
RECURSIVE Unresolved(_, _, _)
Unresolved(f, path, imps) ==
    IF imps = <<>> THEN <<>>
    ELSE LET imp == Head(imps)
             miss == \/ IsAlias(imp) /\ NoneOfSevenExists(f, AliasBase(imp))
                     \/ /\ IsRelative(imp)
                        /\ NoneOfSevenExists(f, RelativeBase(path, imp))
         IN  (IF miss THEN <<MissingLine(path, imp)>> ELSE <<>>)
             \o Unresolved(f, path, Tail(imps))

\* the 'Missing import' lines of a whole run over the walk w
RECURSIVE ExpectedLines(_, _)
ExpectedLines(f, w) ==
    IF w = <<>> THEN <<>>
    ELSE LET path == Join(Head(w).subdir, Head(w).file)
             n == Resolve(f, path)
         IN  (IF IsSource(Head(w).file) /\ n \in DOMAIN f.text
              THEN Unresolved(f, path, FindAll(f.text[n]))
              ELSE <<>>)
             \o ExpectedLines(f, Tail(w))

IsPrefix(a, b) == Len(a) <= Len(b) /\ SubSeq(b, 1, Len(a)) = a

\* C8: the 'Missing import' lines are one line per unresolved alias or
\* relative import occurrence, duplicates included, files in walk order and
\* within a file in order of appearance; the missing-count is their number.
\* Between two files the lines printed so far are a prefix of the lines of
\* the whole run, and at the end they are those lines.
C8_OneLinePerOccurrenceInOrder ==
    LET want == ExpectedLines(fs, Walk(fs, scanOrder))
    IN  /\ error_count = Len(MissingLines(out))
        /\ pc = "walk" => IsPrefix(MissingLines(out), want)
        /\ pc = "done" => MissingLines(out) = want

C8_Witness ==
    /\ pc = "done"
    /\ \E i \in 1..Len(out) : \E j \in (i + 1)..Len(out) :
         \E k \in (j + 1)..Len(out) :
            /\ out[i] = out[j]
            /\ out[k].kind = "Missing import in"
            /\ out[k].file # out[i].file

\* C9: no step of the run changes the files and directories of the tree or
\* their contents.
C9_FilesystemUnchanged == [][fs' = fs]_vars

C9_Witness ==
    /\ pc = "done"
    /\ Len(visited) > 1
    /\ Len(MissingLines(out)) > 0

\* C10: an alias or relative specifier with base path B is classified
\* missing if and only if none of B.ts, B.tsx, B.js, B.jsx, B/index.ts,
\* B/index.tsx and B exists; a base path that is an existing directory is
\* classified resolved.
C10_MissingIffNoneOfSeven ==
    pc = "imports" /\ lastBase # <<>> =>
        /\ ~lastFound <=> NoneOfSevenExists(fs, lastBase)
        /\ IsDir(fs, lastBase) => lastFound

\* a directory without index.ts and index.tsx, and no x.js beside it
C10_Witness ==
    /\ lastImp = ALIAS \o <<"x">>
    /\ lastFound
    /\ IsDir(fs, lastBase)
    /\ ~Exists(fs, lastBase \o <<"/">> \o INDEX_TS)
    /\ ~Exists(fs, lastBase \o <<".", "j", "s">>)

====
